---- MODULE Spec2Model ----
(***************************************************************************)
(* A model of goblimey/tiler: the ESRI grid parser (esri/grid.go) and the  *)
(* rendering driver with its shader (tiler.go).                            *)
(*                                                                         *)
(* Representation.  A float32 is held as an integer number of tenths       *)
(* (Scale), so that the driver's epsilon 0.1 is the integer 1; the         *)
(* arithmetic of shade is exact rational arithmetic on these.  The one    *)
(* rounding of float32 that is kept is that of the sums with 0.1, which    *)
(* beyond 2^21 give back the number itself (AddEpsilon).  A line of the    *)
(* input is a sequence of items, each a token or the space SP; the line    *)
(* terminator is not part of the line.  Logging, and with it the verbose   *)
(* flag and the warnings, is left out: it changes no state.  What a build  *)
(* converts an infinite or NaN quotient to is fixed when the first such    *)
(* quotient is converted (build).                                          *)
(***************************************************************************)
EXTENDS Integers, Sequences, FiniteSets, TLC

\* ------------------------------------------------------------------ bounds
MaxCols == 2
MaxRows == 2
MaxIndex == 2
MaxSmall == 3
MaxCalls == 2

\* --------------------------------------------------- program constants
Scale == 10
Epsilon == 1
HeaderLines == 6
\* 2^21: a float32 beyond it has no neighbour closer than 0.25.
Float32Fine == 2097152
White == 255

\* ------------------------------------------------------------- tokens
Num(v) == [kind |-> "num", val |-> v, name |-> ""]
Word(s) == [kind |-> "word", val |-> 0, name |-> s]
EmptyTok == [kind |-> "empty", val |-> 0, name |-> ""]
SP == [kind |-> "sp", val |-> 0, name |-> " "]
Junk == Word("x")
\* A numeral with other characters after it, as in 500x or 1m.
Pre(v) == [kind |-> "pre", val |-> v, name |-> "x"]

\* A float32 holding the whole number v.
Float32(v) == v * Scale

\* x + e in float32, e being 0.1 or -0.1 and x a whole number (below 2^24).
\* Beyond 2^21 the two neighbours of x are 0.25 or more away and the sum
\* rounds to x itself; at 2^21 this is so on the side away from zero.  Below,
\* the sum is a float32 other than x, held here as x + e.
AddEpsilon(x, e) ==
    IF x > Float32(Float32Fine) \/ x < -Float32(Float32Fine) THEN x
    ELSE IF (x = Float32(Float32Fine) /\ e > 0) \/ (x = -Float32(Float32Fine) /\ e < 0) THEN x
    ELSE x + e

\* fmt.Sscanf(tok, "%d", &result): the number the token starts with (what
\* follows it is left unread), an error where it starts with none.
SscanfInt(tok) ==
    IF tok.kind \in {"num", "pre"} THEN [err |-> FALSE, val |-> tok.val]
    ELSE [err |-> TRUE, val |-> 0]

\* fmt.Sscanf(tok, "%f", &f) into a float32.
SscanfFloat(tok) ==
    IF tok.kind \in {"num", "pre"} THEN [err |-> FALSE, val |-> Float32(tok.val)]
    ELSE [err |-> TRUE, val |-> 0]

\* ------------------------------------------------- stripSpaces and Split
RECURSIVE TrimLeft(_)
TrimLeft(s) ==
    IF s # <<>> /\ Head(s) = SP THEN TrimLeft(Tail(s)) ELSE s

RECURSIVE TrimRight(_)
TrimRight(s) ==
    IF s # <<>> /\ s[Len(s)] = SP THEN TrimRight(SubSeq(s, 1, Len(s) - 1)) ELSE s

\* strings.TrimSpace
TrimSpace(s) == TrimRight(TrimLeft(s))

\* regexp "  +" replaced by " ": a space that follows a space is dropped.
RECURSIVE Collapse(_)
Collapse(s) ==
    IF Len(s) < 2 THEN s
    ELSE IF s[1] = SP /\ s[2] = SP THEN Collapse(Tail(s))
    ELSE <<s[1]>> \o Collapse(Tail(s))

stripSpaces(s) == Collapse(TrimSpace(s))

\* One field of strings.Split: the text between two separators.  A field of
\* one token is that token, the empty field is the empty string, and tokens
\* written without a space between them make up one word, which starts with
\* a number if the first of them does.
Field(items) ==
    IF items = <<>> THEN EmptyTok
    ELSE IF Len(items) = 1 THEN items[1]
    ELSE IF items[1].kind \in {"num", "pre"} THEN Pre(items[1].val)
    ELSE Junk

\* strings.Split(s, " "): always at least one field.
RECURSIVE SplitFrom(_, _)
SplitFrom(s, cur) ==
    IF s = <<>> THEN <<Field(cur)>>
    ELSE IF Head(s) = SP THEN <<Field(cur)>> \o SplitFrom(Tail(s), <<>>)
    ELSE SplitFrom(Tail(s), Append(cur, Head(s)))

Split(s) == SplitFrom(s, <<>>)

\* The words of a line written with gap spaces between them, lead spaces
\* before and trail spaces after.
Spaces(n) == [i \in 1..n |-> SP]

RECURSIVE Join(_, _)
Join(words, gap) ==
    IF words = <<>> THEN <<>>
    ELSE IF Len(words) = 1 THEN words
    ELSE <<Head(words)>> \o Spaces(gap) \o Join(Tail(words), gap)

Line(lead, words, gap, trail) == Spaces(lead) \o Join(words, gap) \o Spaces(trail)

\* ------------------------------------------------------------------ Grid
\* Grid{}: the zero value of the struct.
ZeroGrid ==
    [ncols |-> 0, nrows |-> 0, xllcorner |-> 0, yllcorner |-> 0, cellsize |-> 0,
     noDataValue |-> 0, maxHeightSet |-> FALSE, maxHeight |-> 0,
     minHeightSet |-> FALSE, minHeight |-> 0, height |-> <<>>]

\* make([][]float32, nrows) and make([]float32, ncols) for each row: zeroes.
\* make panics on a negative length.
MakePanics(nrows, ncols) == nrows < 0 \/ (nrows > 0 /\ ncols < 0)

MakeHeight(nrows, ncols) == [i \in 1..nrows |-> [j \in 1..ncols |-> 0]]

\* Whether g.height[row][col] is an element of the allocated matrix; indexing
\* outside it panics.
InMatrix(g, row, col) ==
    /\ row >= 0
    /\ row < Len(g.height)
    /\ col >= 0
    /\ col < Len(g.height[row + 1])

Ncols(g) == g.ncols
Nrows(g) == g.nrows
MaxHeight(g) == g.maxHeight
MinHeight(g) == g.minHeight
Height(g, i, col) == g.height[i + 1][col + 1]

SetNCols(g, ncols) == [g EXCEPT !.ncols = ncols]
SetNRows(g, nrows) == [g EXCEPT !.nrows = nrows]

\* The guard of SetHeight: the call is logged and ignored.
OutOfRange(g, row, col) == row >= g.nrows \/ col >= g.ncols

\* StoreHeight with minHeightSet left unset: every height becomes the minimum.
StoreHeightMinUnset(g, row, col, height) ==
    [g EXCEPT !.height[row + 1][col + 1] = height,
              !.maxHeight = IF g.maxHeightSet
                            THEN (IF height > g.maxHeight THEN height ELSE g.maxHeight)
                            ELSE height,
              !.maxHeightSet = TRUE,
              !.minHeight = height]

\* The assignments of SetHeight after its guard.
StoreHeight(g, row, col, height) ==
    [g EXCEPT !.height[row + 1][col + 1] = height,
              !.maxHeight = IF g.maxHeightSet
                            THEN (IF height > g.maxHeight THEN height ELSE g.maxHeight)
                            ELSE height,
              !.maxHeightSet = TRUE,
              !.minHeight = IF g.minHeightSet
                            THEN (IF height < g.minHeight THEN height ELSE g.minHeight)
                            ELSE height,
              !.minHeightSet = TRUE]

\* SetHeight: the grid afterwards, whether the value was stored, and whether
\* the index expression panicked.
SetHeight(g, row, col, height) ==
    IF OutOfRange(g, row, col)
    THEN [g |-> g, stored |-> FALSE, panic |-> FALSE]
    ELSE IF ~InMatrix(g, row, col)
    THEN [g |-> g, stored |-> FALSE, panic |-> TRUE]
    ELSE [g |-> StoreHeight(g, row, col, height), stored |-> TRUE, panic |-> FALSE]

\* ---------------------------------------------------------------- shade
Abs(a) == IF a < 0 THEN -a ELSE a

\* r * m = q * c + rem for 0 <= r < c and m >= 0, by halving m, so that no
\* intermediate value exceeds 2 * c.
RECURSIVE MulDivNat(_, _, _)
MulDivNat(r, m, c) ==
    IF m = 0 THEN [q |-> 0, rem |-> 0]
    ELSE LET half == MulDivNat(r, m \div 2, c)
             dq == 2 * half.q + (IF 2 * half.rem >= c THEN 1 ELSE 0)
             drem == IF 2 * half.rem >= c THEN 2 * half.rem - c ELSE 2 * half.rem
         IN  IF m % 2 = 0 THEN [q |-> dq, rem |-> drem]
             ELSE IF drem + r >= c THEN [q |-> dq + 1, rem |-> drem + r - c]
             ELSE [q |-> dq, rem |-> drem + r]

\* a * m / b as the conversion of the float quotient to an integer gives it:
\* truncated toward zero.
TruncDiv(a, m, b) ==
    LET whole == (Abs(a) \div Abs(b)) * m + MulDivNat(Abs(a) % Abs(b), m, Abs(b)).q
    IN  IF (a >= 0) = (b > 0) THEN whole ELSE -whole

\* uint8(x) of an integer x that may lie outside 0..255: the low eight bits.
Uint8(x) == x % 256

\* shade scaled by 255 in place of 256.
shadeBy255(floor, ceiling, height) ==
    LET h == height - floor
        c == ceiling - floor
    IN  IF c = 0 THEN {White - 0, White - 255}
        ELSE {Uint8(White - Uint8(TruncDiv(h, 255, c)))}

\* The intensities shade can return.  A zero span divides by zero: the
\* quotient is an infinity or a NaN, whose conversion to uint8 depends on the
\* build (0 or 255 on the usual targets).
shade(floor, ceiling, height) ==
    LET h == height - floor
        c == ceiling - floor
    IN  IF c = 0 THEN {White - 0, White - 255}
        ELSE {Uint8(White - Uint8(TruncDiv(h, 256, c)))}

\* The kind of quotient a zero span gives: height * 256.0 / 0.
Kind(h) == IF h > 0 THEN "+Inf" ELSE IF h < 0 THEN "-Inf" ELSE "NaN"

Kinds == {"+Inf", "-Inf", "NaN"}

\* Before any such quotient has been converted, every outcome is open.
AnyBuild == [k \in Kinds |-> {White - 0, White - 255}]

\* The shades the build at hand can give for these arguments.  The
\* conversion of an infinity or a NaN to uint8 is fixed by the build: once a
\* kind of quotient has been converted, it converts to the same value again.
Outcomes(b, floor, ceiling, height) ==
    IF ceiling - floor = 0 THEN b[Kind(height - floor)] ELSE 0..White

\* What is known of the build after shade returned s.
Observe(b, floor, ceiling, height, s) ==
    IF ceiling - floor = 0 THEN [b EXCEPT ![Kind(height - floor)] = {s}] ELSE b

\* Track keeping the first shade as the minimum.
TrackFirstAsMin(t, s) ==
    [maxShade |-> IF t.maxShadeSet THEN (IF s > t.maxShade THEN s ELSE t.maxShade) ELSE s,
     maxShadeSet |-> TRUE,
     minShade |-> IF t.minShadeSet THEN t.minShade ELSE s,
     minShadeSet |-> TRUE]

\* The running maximum and minimum shade, updated by every call of shade.
Track(t, s) ==
    [maxShade |-> IF t.maxShadeSet THEN (IF s > t.maxShade THEN s ELSE t.maxShade) ELSE s,
     maxShadeSet |-> TRUE,
     minShade |-> IF t.minShadeSet THEN (IF s < t.minShade THEN s ELSE t.minShade) ELSE s,
     minShadeSet |-> TRUE]

NoShades == [maxShade |-> 0, maxShadeSet |-> FALSE, minShade |-> 0, minShadeSet |-> FALSE]

\* ---------------------------------------------------------------- state
VARIABLES
    pc,       \* the statement the program is at
    input,    \* "example": the input is ExampleFile; "any": lines are chosen as read
    opt,      \* main's flagset, floor64, ceiling64, floor, ceiling, minHeightSet,
              \* maxHeightSet
    out,      \* the output path: "untouched", "empty" (created or truncated), "image"
    g,        \* the Grid under construction, or the Grid of the API calls
    rd,       \* ReadGridFromFile's lineNum and row
    ret,      \* what ReadGridFromFile returned: "none" yet, "grid", "error"
    crashed,  \* the program ended in a run-time panic
    img,      \* the image: width w, height h and its pixels
    loop,     \* main's row and col
    tracker,  \* maxShade, maxShadeSet, minShade, minShadeSet
    call,     \* the most recent call of shade or of a Grid method, with its arguments
    hist,     \* history: the value written on each header line read, the data
              \* lines consumed as rows, whether end-of-input was met and the
              \* unterminated text before it, the heights SetHeight stored, the
              \* shades returned, the number of calls of shade, the calls of
              \* shade in order, the cells main's loops visited in order
    build     \* what the build converts each kind of unrepresentable quotient to

vars == <<pc, input, opt, out, g, rd, ret, crashed, img, loop, tracker, call, hist, build>>

\* A pixel of image.NewRGBA before any Set: transparent, alpha 0.
Unwritten == -1

NoImage == [w |-> 0, h |-> 0, pix |-> <<>>]
NoCall == [op |-> "none", a |-> 0, b |-> 0, c |-> 0, res |-> 0]
NoHist ==
    [hdr |-> <<>>, data |-> <<>>, eof |-> FALSE, tail |-> <<>>,
     stored |-> {}, shades |-> {}, calls |-> 0, log |-> <<>>, cells |-> <<>>]
NoOpt ==
    [flagset |-> {}, floor64 |-> 0, ceiling64 |-> 0,
     floor |-> 0, ceiling |-> 0, minHeightSet |-> FALSE, maxHeightSet |-> FALSE]

\* ---------------------------------------------------------------- input
\* The example of the package comment.
ExampleFile ==
    << Line(0, <<Word("ncols"), Num(4)>>, 1, 0),
       Line(0, <<Word("nrows"), Num(4)>>, 1, 0),
       Line(0, <<Word("xllcorner"), Num(513000)>>, 4, 0),
       Line(0, <<Word("yllcorner"), Num(152000)>>, 4, 0),
       Line(0, <<Word("cellsize"), Num(1)>>, 5, 0),
       Line(0, <<Word("NODATA_value"), Num(-9999)>>, 1, 0),
       Line(0, <<Num(500), Num(500), Num(500), Num(500)>>, 1, 0),
       Line(0, <<Num(500), Num(500), Num(500), Num(500)>>, 1, 0),
       Line(0, <<Num(1000), Num(1000), Num(1000), Num(1000)>>, 1, 0),
       Line(0, <<Num(1000), Num(1000), Num(1000), Num(1000)>>, 1, 0) >>

NcolsVals == {Num(v) : v \in -1..MaxCols} \cup {Pre(1)}
NrowsVals == {Num(v) : v \in -1..MaxRows}
Heights == {500, 1000}

\* The words of a line as written, spaces apart.
Words(line) == SelectSeq(line, LAMBDA t : t # SP)

\* The value written on a header line: its second word, if it has one.
ValueWord(line) == IF Len(Words(line)) >= 2 THEN <<Words(line)[2]>> ELSE <<>>

\* The header lines offered for a field: well formed, with another key and
\* more spaces, with a third token, with a value that is no number, without a
\* value, and blank.
HeaderVocab(fieldName, vals) ==
    {Line(0, <<Word(fieldName), v>>, 1, 0) : v \in vals}
    \cup {Line(1, <<Word("other"), v>>, 4, 1) : v \in vals}
    \cup {Line(0, <<Word(fieldName), v, Junk>>, 1, 0) : v \in vals}
    \cup {Line(0, <<Word(fieldName), Junk>>, 1, 0), <<Word(fieldName)>>, <<>>}

\* A data line of n values v, v+1, ..
Values(n, v) == [c \in 1..n |-> Num(v + c - 1)]

\* The data lines offered: blank, 1..MaxCols+1 values from 500, 1..MaxCols
\* values from 1000 (written with a trailing space and two spaces between
\* values, as tilt.go writes them), lines of 1..MaxCols tokens whose last
\* token is no number, 500x, and one height beyond 2^21.
DataVocab ==
    {<<>>, <<Pre(500)>>, <<Num(3000000)>>}
    \cup {Line(0, Values(n, 500), 1, 0) : n \in 1..(MaxCols + 1)}
    \cup {Line(0, Values(n, 1000), 2, 1) : n \in 1..MaxCols}
    \cup {Line(0, Append(Values(n - 1, 500), Junk), 1, 0) : n \in 1..MaxCols}

\* What can precede end-of-input without a newline in the header.
HeaderTails(fieldName) == {<<>>, Line(0, <<Word(fieldName), Num(1)>>, 1, 0)}

\* What can precede end-of-input without a newline: nothing, or a last line.
TailVocab(ncols) ==
    IF ncols > 0 THEN {<<>>, Line(0, Values(ncols, 500), 1, 0)} ELSE {<<>>}

\* r.ReadString('\n'): the next line, or err with the text before end-of-input.
ReadString(vocab, tails) ==
    IF input = "example"
    THEN {IF rd.lineNum < Len(ExampleFile)
          THEN [line |-> ExampleFile[rd.lineNum + 1], err |-> FALSE]
          ELSE [line |-> <<>>, err |-> TRUE]}
    ELSE {[line |-> l, err |-> FALSE] : l \in vocab}
         \cup {[line |-> l, err |-> TRUE] : l \in tails}

\* --------------------------------------------------------------- parser
\* readIntFromHeader on the outcome of its ReadString: a read error is
\* returned, field[1] of a line of fewer than two fields panics, and a value
\* that does not scan is returned as an error.
readIntFromHeader(r) ==
    IF r.err THEN [err |-> TRUE, panic |-> FALSE, val |-> 0]
    ELSE LET field == Split(stripSpaces(r.line))
         IN  IF Len(field) < 2 THEN [err |-> FALSE, panic |-> TRUE, val |-> 0]
             ELSE [err |-> SscanfInt(field[2]).err, panic |-> FALSE,
                   val |-> SscanfInt(field[2]).val]

\* readFloat32FromHeader taking a failed read for a line without text.
readFloat32IgnoringEOF(r) ==
    IF r.err THEN [err |-> FALSE, panic |-> FALSE, val |-> 0]
    ELSE LET field == Split(stripSpaces(r.line))
         IN  IF Len(field) < 2 THEN [err |-> FALSE, panic |-> TRUE, val |-> 0]
             ELSE [err |-> SscanfFloat(field[2]).err, panic |-> FALSE,
                   val |-> SscanfFloat(field[2]).val]

readFloat32FromHeader(r) ==
    IF r.err THEN [err |-> TRUE, panic |-> FALSE, val |-> 0]
    ELSE LET field == Split(stripSpaces(r.line))
         IN  IF Len(field) < 2 THEN [err |-> FALSE, panic |-> TRUE, val |-> 0]
             ELSE [err |-> SscanfFloat(field[2]).err, panic |-> FALSE,
                   val |-> SscanfFloat(field[2]).val]

\* SetRow storing the token of column col at col + 1.
RECURSIVE SetRowFromOne(_, _, _, _, _)
SetRowFromOne(gr, row, numbers, col, stored) ==
    IF col >= Len(numbers)
    THEN [g |-> gr, err |-> FALSE, panic |-> FALSE, stored |-> stored]
    ELSE LET f == SscanfFloat(numbers[col + 1])
             set == SetHeight(gr, row, col + 1, f.val)
         IN  IF f.err THEN [g |-> gr, err |-> TRUE, panic |-> FALSE, stored |-> stored]
             ELSE IF set.panic
             THEN [g |-> gr, err |-> FALSE, panic |-> TRUE, stored |-> stored]
             ELSE SetRowFromOne(set.g, row, numbers, col + 1,
                                IF set.stored THEN stored \cup {f.val} ELSE stored)

\* The loop over the tokens of a data line from column col on: each is
\* scanned and stored with SetHeight; the first that does not scan ends the
\* parse with an error, leaving the values already stored in g.
RECURSIVE SetRow(_, _, _, _, _)
SetRow(gr, row, numbers, col, stored) ==
    IF col >= Len(numbers)
    THEN [g |-> gr, err |-> FALSE, panic |-> FALSE, stored |-> stored]
    ELSE LET f == SscanfFloat(numbers[col + 1])
             set == SetHeight(gr, row, col, f.val)
         IN  IF f.err THEN [g |-> gr, err |-> TRUE, panic |-> FALSE, stored |-> stored]
             ELSE IF set.panic
             THEN [g |-> gr, err |-> FALSE, panic |-> TRUE, stored |-> stored]
             ELSE SetRow(set.g, row, numbers, col + 1,
                         IF set.stored THEN stored \cup {f.val} ELSE stored)

\* ParseLine read with the scan of a token that fails passed over.
ParseLineLenient(gr, row, line) ==
    LET numbers == Split(stripSpaces(line))
        p == SetRow(gr, row, numbers, 0, {})
    IN  IF Len(numbers) > gr.ncols \/ Len(numbers) < gr.ncols
        THEN [g |-> gr, err |-> FALSE, panic |-> FALSE, stored |-> {}, skipped |-> TRUE]
        ELSE [g |-> p.g, err |-> FALSE, panic |-> p.panic, stored |-> p.stored,
              skipped |-> FALSE]

\* The body of the data loop for one line: a line with more or fewer tokens
\* than ncols is skipped with a warning.
ParseLine(gr, row, line) ==
    LET numbers == Split(stripSpaces(line))
        p == SetRow(gr, row, numbers, 0, {})
    IN  IF Len(numbers) > gr.ncols \/ Len(numbers) < gr.ncols
        THEN [g |-> gr, err |-> FALSE, panic |-> FALSE, stored |-> {}, skipped |-> TRUE]
        ELSE [g |-> p.g, err |-> p.err, panic |-> p.panic, stored |-> p.stored,
              skipped |-> FALSE]

\* The row of the next line when a skipped line does not count as a row.
NextRowUnlessSkipped(row, skipped) == IF skipped THEN row ELSE row + 1

\* The post statement row++ of the data loop, run after a line that was
\* stored and, with continue, after a line that was skipped.
NextRow(row, skipped) == row + 1

linesExpected == g.nrows + HeaderLines

\* ----------------------------------------------------------------- main
Init ==
    /\ pc = "flags"
    /\ input \in {"any", "example"}
    /\ opt = NoOpt
    /\ out = "untouched"
    /\ g = ZeroGrid
    /\ rd = [lineNum |-> 0, row |-> 0]
    /\ ret = "none"
    /\ crashed = FALSE
    /\ img = NoImage
    /\ loop = [row |-> 0, col |-> 0]
    /\ tracker = NoShades
    /\ call = NoCall
    /\ hist = NoHist
    /\ build = AnyBuild

FlagNames == {"floor", "f", "ceiling", "c"}
FloorArgs == {0}
CeilingArgs == {800}

\* The command lines offered: each of the two options given at most once, by
\* its long or by its short name.
FlagSets ==
    {fs \in SUBSET FlagNames :
        ~({"floor", "f"} \subseteq fs) /\ ~({"ceiling", "c"} \subseteq fs)}

\* flag.Parse, which leaves the default 0.0 in the variable of an option that
\* was not given, and the four tests of flagset.
ParseFlags ==
    /\ pc = "flags"
    /\ \E flagset \in FlagSets, floorArg \in FloorArgs, ceilingArg \in CeilingArgs :
         LET floor64 == IF "floor" \in flagset \/ "f" \in flagset THEN floorArg ELSE 0
             ceiling64 == IF "ceiling" \in flagset \/ "c" \in flagset THEN ceilingArg ELSE 0
         IN  opt' = [flagset |-> flagset,
                     floor64 |-> floor64,
                     ceiling64 |-> ceiling64,
                     floor |-> IF "floor" \in flagset \/ "f" \in flagset
                               THEN Float32(floor64) ELSE 0,
                     ceiling |-> IF "ceiling" \in flagset \/ "c" \in flagset
                                 THEN Float32(ceiling64) ELSE 0,
                     minHeightSet |-> "floor" \in flagset \/ "f" \in flagset,
                     maxHeightSet |-> "ceiling" \in flagset \/ "c" \in flagset]
    /\ pc' = "create"
    /\ UNCHANGED <<build, input, out, g, rd, ret, crashed, img, loop, tracker, call, hist>>

\* os.Create(output): creates or truncates the file, or fails and main returns.
CreateOutput ==
    /\ pc = "create"
    /\ \E ok \in BOOLEAN :
         IF ok THEN out' = "empty" /\ pc' = "open"
         ELSE out' = out /\ pc' = "exit"
    /\ UNCHANGED <<build, input, opt, g, rd, ret, crashed, img, loop, tracker, call, hist>>

\* os.Open(filename) in ReadGridFromFile.
OpenInput ==
    /\ pc = "open"
    /\ \E ok \in BOOLEAN :
         IF ok \/ input = "example" THEN ret' = ret /\ pc' = "ncols"
         ELSE ret' = "error" /\ pc' = "exit"
    /\ UNCHANGED <<build, input, opt, out, g, rd, crashed, img, loop, tracker, call, hist>>

\* The common end of the six header steps, h being what the read returned.
HeaderStep(r, h, g2, next) ==
    /\ hist' = [hist EXCEPT !.hdr = IF r.err THEN hist.hdr
                                    ELSE Append(hist.hdr, ValueWord(r.line)),
                            !.eof = r.err]
    /\ IF h.panic THEN crashed' = TRUE /\ ret' = ret /\ pc' = "exit" /\ g' = g /\ rd' = rd
       ELSE IF h.err THEN crashed' = crashed /\ ret' = "error" /\ pc' = "exit" /\ g' = g /\ rd' = rd
       ELSE /\ crashed' = crashed
            /\ ret' = ret
            /\ pc' = next
            /\ g' = g2
            /\ rd' = [rd EXCEPT !.lineNum = rd.lineNum + 1]
    /\ UNCHANGED <<build, input, opt, out, img, loop, tracker, call>>

ReadNcols ==
    /\ pc = "ncols"
    /\ \E r \in ReadString(HeaderVocab("ncols", NcolsVals), HeaderTails("ncols")) :
         LET h == readIntFromHeader(r)
         IN  HeaderStep(r, h, [g EXCEPT !.ncols = h.val], "nrows")

ReadNrows ==
    /\ pc = "nrows"
    /\ \E r \in ReadString(HeaderVocab("nrows", NrowsVals), HeaderTails("nrows")) :
         LET h == readIntFromHeader(r)
         IN  HeaderStep(r, h, [g EXCEPT !.nrows = h.val], "make")

\* g.height = make(..) and the loop of make for the rows.
MakeGrid ==
    /\ pc = "make"
    /\ IF MakePanics(g.nrows, g.ncols)
       THEN crashed' = TRUE /\ pc' = "exit" /\ g' = g
       ELSE crashed' = crashed /\ pc' = "xllcorner"
            /\ g' = [g EXCEPT !.height = MakeHeight(g.nrows, g.ncols)]
    /\ UNCHANGED <<build, input, opt, out, rd, ret, img, loop, tracker, call, hist>>

ReadXllcorner ==
    /\ pc = "xllcorner"
    /\ \E r \in ReadString(HeaderVocab("xllcorner", {Num(513000)}), HeaderTails("xllcorner")) :
         LET h == readFloat32FromHeader(r)
         IN  HeaderStep(r, h, [g EXCEPT !.xllcorner = h.val], "yllcorner")

ReadYllcorner ==
    /\ pc = "yllcorner"
    /\ \E r \in ReadString(HeaderVocab("yllcorner", {Num(152000)}), HeaderTails("yllcorner")) :
         LET h == readFloat32FromHeader(r)
         IN  HeaderStep(r, h, [g EXCEPT !.yllcorner = h.val], "cellsize")

ReadCellsize ==
    /\ pc = "cellsize"
    /\ \E r \in ReadString(HeaderVocab("cellsize", {Num(1)}), HeaderTails("cellsize")) :
         LET h == readFloat32FromHeader(r)
         IN  HeaderStep(r, h, [g EXCEPT !.cellsize = h.val], "NODATA_value")

ReadNoData ==
    /\ pc = "NODATA_value"
    /\ \E r \in ReadString(HeaderVocab("NODATA_value", {Num(-9999)}), HeaderTails("NODATA_value")) :
         LET h == readIntFromHeader(r)
         IN  HeaderStep(r, h, [g EXCEPT !.noDataValue = h.val], "data")

\* One iteration of the data loop: the read, the two breaks, and the line.
ReadDataLine ==
    /\ pc = "data"
    /\ \E r \in ReadString(DataVocab, TailVocab(g.ncols)) :
         LET p == ParseLine(g, rd.row, r.line)
         IN  IF r.err
             THEN /\ pc' = "return"
                  /\ hist' = [hist EXCEPT !.tail = r.line, !.eof = TRUE]
                  /\ UNCHANGED <<g, rd, ret, crashed>>
             ELSE IF rd.lineNum + 1 > linesExpected
             THEN /\ pc' = "return"
                  /\ rd' = [rd EXCEPT !.lineNum = rd.lineNum + 1]
                  /\ UNCHANGED <<g, ret, crashed, hist>>
             ELSE /\ hist' = [hist EXCEPT !.data = Append(hist.data, r.line),
                                          !.stored = hist.stored \cup p.stored]
                  /\ IF p.panic
                     THEN crashed' = TRUE /\ ret' = ret /\ pc' = "exit" /\ g' = g /\ rd' = rd
                     ELSE IF p.err
                     THEN crashed' = crashed /\ ret' = "error" /\ pc' = "exit"
                          /\ g' = p.g /\ rd' = [rd EXCEPT !.lineNum = rd.lineNum + 1]
                     ELSE /\ crashed' = crashed
                          /\ ret' = ret
                          /\ pc' = "data"
                          /\ g' = p.g
                          /\ rd' = [lineNum |-> rd.lineNum + 1,
                                    row |-> NextRow(rd.row, p.skipped)]
    /\ UNCHANGED <<build, input, opt, out, img, loop, tracker, call>>

\* The warning for too few lines, and return &g, nil.
ReturnGrid ==
    /\ pc = "return"
    /\ ret' = "grid"
    /\ pc' = "bounds"
    /\ UNCHANGED <<build, input, opt, out, g, rd, crashed, img, loop, tracker, call, hist>>

\* If floor or ceiling not already set, set them from the data.
SetBounds ==
    /\ pc = "bounds"
    /\ opt' = [opt EXCEPT
                 !.floor = IF opt.minHeightSet THEN opt.floor
                           ELSE AddEpsilon(MinHeight(g), -Epsilon),
                 !.ceiling = IF opt.maxHeightSet THEN opt.ceiling
                             ELSE AddEpsilon(MaxHeight(g), Epsilon)]
    /\ pc' = "image"
    /\ UNCHANGED <<build, input, out, g, rd, ret, crashed, img, loop, tracker, call, hist>>

\* image.Rect(x0, y0, x1, y1): the points with x0 <= x < x1 and y0 <= y < y1,
\* the corners swapped where they are given in the other order.
Rect(x0, y0, x1, y1) ==
    LET lox == IF x0 > x1 THEN x1 ELSE x0
        hix == IF x0 > x1 THEN x0 ELSE x1
        loy == IF y0 > y1 THEN y1 ELSE y0
        hiy == IF y0 > y1 THEN y0 ELSE y1
    IN  [w |-> hix - lox, h |-> hiy - loy,
         points |-> {<<x, y>> : x \in lox..(hix - 1), y \in loy..(hiy - 1)}]

\* The rectangle main gives its image.
ImageRect(gr) == Rect(0, 0, Nrows(gr), Ncols(gr))

\* img.Set(x, y, c): a point outside the rectangle is ignored.
ImgSet(im, x, y, c) ==
    IF <<x, y>> \in DOMAIN im.pix THEN [im EXCEPT !.pix[<<x, y>>] = c] ELSE im

\* PixelOf with the two coordinates exchanged.
PixelOfTransposed(row, col) == <<row, col>>

\* Where main stores the shade of cell (row, col).
PixelOf(row, col) == <<col, row>>

\* The cell main's loops visit after (row, col); row -1 ends them.
NextCell(gr, row, col) ==
    IF col + 1 < Ncols(gr) THEN [row |-> row, col |-> col + 1]
    ELSE [row |-> row - 1, col |-> 0]

\* The first cell: a grid without columns has none.
FirstCell(gr) ==
    IF Ncols(gr) > 0 THEN [row |-> Nrows(gr) - 1, col |-> 0]
    ELSE [row |-> -1, col |-> 0]

NewImage ==
    /\ pc = "image"
    /\ img' = [w |-> ImageRect(g).w, h |-> ImageRect(g).h,
               pix |-> [p \in ImageRect(g).points |-> Unwritten]]
    /\ loop' = FirstCell(g)
    /\ pc' = "render"
    /\ UNCHANGED <<build, input, opt, out, g, rd, ret, crashed, tracker, call, hist>>

\* The body of the inner loop for one cell.
RenderCell ==
    /\ pc = "render"
    /\ loop.row >= 0
    /\ IF ~InMatrix(g, loop.row, loop.col)
       THEN /\ crashed' = TRUE
            /\ pc' = "exit"
            /\ UNCHANGED <<img, loop, tracker, call, hist, build>>
       ELSE \E c \in shade(opt.floor, opt.ceiling, Height(g, loop.row, loop.col))
                        \cap Outcomes(build, opt.floor, opt.ceiling,
                                      Height(g, loop.row, loop.col)) :
              /\ build' = Observe(build, opt.floor, opt.ceiling,
                                  Height(g, loop.row, loop.col), c)
              /\ tracker' = Track(tracker, c)
              /\ call' = [op |-> "shade", a |-> opt.floor, b |-> opt.ceiling,
                          c |-> Height(g, loop.row, loop.col), res |-> c]
              /\ hist' = [hist EXCEPT !.shades = hist.shades \cup {c},
                                      !.calls = hist.calls + 1,
                                      !.log = Append(hist.log, call'),
                                      !.cells = Append(hist.cells, <<loop.row, loop.col>>)]
              /\ img' = ImgSet(img, PixelOf(loop.row, loop.col)[1],
                               PixelOf(loop.row, loop.col)[2], c)
              /\ loop' = NextCell(g, loop.row, loop.col)
              /\ pc' = pc
              /\ crashed' = crashed
    /\ UNCHANGED <<input, opt, out, g, rd, ret>>

\* png.Encode(out, img), after the loops.
Encode ==
    /\ pc = "render"
    /\ loop.row < 0
    /\ out' = "image"
    /\ pc' = "exit"
    /\ UNCHANGED <<build, input, opt, g, rd, ret, crashed, img, loop, tracker, call, hist>>

Next ==
    \/ ParseFlags
    \/ CreateOutput
    \/ OpenInput
    \/ ReadNcols
    \/ ReadNrows
    \/ MakeGrid
    \/ ReadXllcorner
    \/ ReadYllcorner
    \/ ReadCellsize
    \/ ReadNoData
    \/ ReadDataLine
    \/ ReturnGrid
    \/ SetBounds
    \/ NewImage
    \/ RenderCell
    \/ Encode

Spec == Init /\ [][Next]_vars

\* ------------------------------------------------- the Grid's public methods
\* A Grid as a caller can hold it: the zero value, or one whose matrix was
\* made for the nrows and ncols of its header.
ApiShapes == {<<0, 0>>, <<1, 1>>, <<1, 2>>, <<2, 1>>}
ApiHeights == {Float32(-1), Float32(2)}
ApiIndex == -1..MaxIndex
ApiSize == 0..(MaxIndex + 1)

GridInit ==
    /\ pc = "api"
    /\ input = "any"
    /\ opt = NoOpt
    /\ out = "untouched"
    /\ \E shape \in ApiShapes :
         g = [ZeroGrid EXCEPT !.nrows = shape[1], !.ncols = shape[2],
                              !.height = MakeHeight(shape[1], shape[2])]
    /\ rd = [lineNum |-> 0, row |-> 0]
    /\ ret = "grid"
    /\ crashed = FALSE
    /\ img = NoImage
    /\ loop = [row |-> 0, col |-> 0]
    /\ tracker = NoShades
    /\ call = NoCall
    /\ hist = NoHist
    /\ build = AnyBuild

CallSetNRows ==
    /\ pc = "api"
    /\ \E nrows \in ApiSize :
         /\ g' = SetNRows(g, nrows)
         /\ call' = [op |-> "SetNRows", a |-> nrows, b |-> 0, c |-> 0, res |-> 0]
    /\ UNCHANGED <<build, pc, input, opt, out, rd, ret, crashed, img, loop, tracker, hist>>

CallSetNCols ==
    /\ pc = "api"
    /\ \E ncols \in ApiSize :
         /\ g' = SetNCols(g, ncols)
         /\ call' = [op |-> "SetNCols", a |-> ncols, b |-> 0, c |-> 0, res |-> 0]
    /\ UNCHANGED <<build, pc, input, opt, out, rd, ret, crashed, img, loop, tracker, hist>>

CallSetHeight ==
    /\ pc = "api"
    /\ \E row \in ApiIndex, col \in ApiIndex, height \in ApiHeights :
         LET set == SetHeight(g, row, col, height)
         IN  /\ g' = set.g
             /\ crashed' = set.panic
             /\ pc' = IF set.panic THEN "exit" ELSE pc
             /\ call' = [op |-> "SetHeight", a |-> row, b |-> col, c |-> height,
                         res |-> IF set.stored THEN 1 ELSE 0]
             /\ hist' = [hist EXCEPT !.stored = IF set.stored THEN hist.stored \cup {height}
                                                ELSE hist.stored]
    /\ UNCHANGED <<build, input, opt, out, rd, ret, img, loop, tracker>>

GridNext ==
    \/ CallSetNRows
    \/ CallSetNCols
    \/ CallSetHeight

GridSpec == GridInit /\ [][GridNext]_vars

\* ----------------------------------------------------------- shade alone
ShadeFloors == 0..1
ShadeCeilings == 0..MaxSmall \cup {1000}
ShadeHeights == -1..(MaxSmall + 1) \cup {500, 1000}

ShadeInit ==
    /\ pc = "shade"
    /\ input = "any"
    /\ opt = NoOpt
    /\ out = "untouched"
    /\ g = ZeroGrid
    /\ rd = [lineNum |-> 0, row |-> 0]
    /\ ret = "none"
    /\ crashed = FALSE
    /\ img = NoImage
    /\ loop = [row |-> 0, col |-> 0]
    /\ tracker = NoShades
    /\ call = NoCall
    /\ hist = NoHist
    /\ build = AnyBuild

CallShade ==
    /\ pc = "shade"
    /\ hist.calls < MaxCalls
    /\ \E floor \in ShadeFloors, ceiling \in ShadeCeilings, height \in ShadeHeights :
         \E s \in shade(floor, ceiling, height) \cap Outcomes(build, floor, ceiling, height) :
           /\ build' = Observe(build, floor, ceiling, height, s)
           /\ tracker' = Track(tracker, s)
           /\ call' = [op |-> "shade", a |-> floor, b |-> ceiling, c |-> height, res |-> s]
           /\ hist' = [hist EXCEPT !.shades = hist.shades \cup {s},
                                   !.calls = hist.calls + 1,
                                   !.log = Append(hist.log, call')]
    /\ UNCHANGED <<pc, input, opt, out, g, rd, ret, crashed, img, loop>>

ShadeNext == CallShade

ShadeSpec == ShadeInit /\ [][ShadeNext]_vars

\* ------------------------------------------------------------ properties
SetMax(S) == CHOOSE x \in S : \A y \in S : y <= x
SetMin(S) == CHOOSE x \in S : \A y \in S : x <= y

\* The number of tokens of a line split on single spaces: a blank line
\* splits into one empty token.
TokenCount(line) == IF Words(line) = <<>> THEN 1 ELSE Len(Words(line))

\* A token no number can be read from.
Unparsable(tok) == tok.kind \in {"word", "empty"}

\* The line holds a token no number can be read from.
HasUnparsable(line) ==
    Words(line) = <<>> \/ \E k \in 1..Len(Words(line)) : Unparsable(Words(line)[k])

\* A data line of ncols numerals.
IsRow(line, ncols) ==
    /\ Len(Words(line)) = ncols
    /\ \A k \in 1..Len(Words(line)) : Words(line)[k].kind = "num"

\* The value written as token c of a line, as a float32.
ValueOf(line, c) == Words(line)[c + 1].val * Scale

\* The six header values were read and are numerals.
HeaderRead ==
    /\ Len(hist.hdr) = HeaderLines
    /\ \A i \in 1..HeaderLines : hist.hdr[i] # <<>> /\ hist.hdr[i][1].kind = "num"

HeaderNcols == hist.hdr[1][1].val
HeaderNrows == hist.hdr[2][1].val

\* The input was a well-formed file: six header lines, then exactly nrows
\* newline-terminated lines of ncols numerals, then end-of-input.
WellFormed ==
    /\ HeaderRead
    /\ HeaderNcols > 0
    /\ HeaderNrows > 0
    /\ hist.eof
    /\ hist.tail = <<>>
    /\ Len(hist.data) = HeaderNrows
    /\ \A i \in 1..Len(hist.data) : IsRow(hist.data[i], HeaderNcols)

DataValues ==
    {ValueOf(hist.data[i], c) : i \in 1..Len(hist.data), c \in 0..(HeaderNcols - 1)}

\* C1: for ceiling > floor, shade(floor, ceiling, floor) is 255 and
\* shade(floor, ceiling, ceiling) is 0.
C1_FloorWhiteCeilingBlack ==
    (call.op = "shade" /\ call.b > call.a) =>
        /\ call.c = call.a => call.res = 255
        /\ call.c = call.b => call.res = 0

C3_WellFormedFileParsed ==
    WellFormed =>
        /\ ~crashed
        /\ ret # "error"
        /\ Ncols(g) = HeaderNcols
        /\ Nrows(g) = HeaderNrows
        /\ \A r \in 0..(HeaderNrows - 1), c \in 0..(HeaderNcols - 1) :
             InMatrix(g, r, c) /\ Height(g, r, c) = ValueOf(hist.data[r + 1], c)
        /\ MinHeight(g) = SetMin(DataValues)
        /\ MaxHeight(g) = SetMax(DataValues)
        /\ input = "example" =>
             /\ MinHeight(g) = 500 * Scale
             /\ MaxHeight(g) = 1000 * Scale
             /\ Height(g, 0, 0) = 500 * Scale
             /\ Height(g, 3, 3) = 1000 * Scale

C3_Witness ==
    /\ input = "example"
    /\ WellFormed
    /\ ret = "grid"
    /\ Ncols(g) = 4
    /\ Nrows(g) = 4

\* The values of the consumed lines that have ncols tokens.
MatchedValues ==
    {Words(hist.data[i])[k].val * Scale :
        i \in {j \in 1..Len(hist.data) : Len(Words(hist.data[j])) = Ncols(g)},
        k \in 1..Ncols(g)}

\* C4: a data line whose token count differs from ncols does not fail the
\* parse, leaves its grid row all zero and MinHeight/MaxHeight as the other
\* lines made them, and every later line is still parsed into its own row.
C4_MismatchedRowSkipped ==
    (Len(hist.hdr) = HeaderLines /\ ~crashed) =>
        /\ \A i \in 1..Len(hist.data) :
             TokenCount(hist.data[i]) # Ncols(g) =>
                /\ ~(ret = "error" /\ i = Len(hist.data))
                /\ \A c \in 0..(Ncols(g) - 1) : Height(g, i - 1, c) = 0
                /\ \A j \in (i + 1)..Len(hist.data) :
                     IsRow(hist.data[j], Ncols(g)) =>
                        \A c \in 0..(Ncols(g) - 1) :
                           Height(g, j - 1, c) = ValueOf(hist.data[j], c)
        /\ (ret # "error" /\ Ncols(g) > 0) =>
             IF MatchedValues = {}
             THEN ~g.minHeightSet /\ ~g.maxHeightSet
             ELSE /\ MinHeight(g) = SetMin(MatchedValues)
                  /\ MaxHeight(g) = SetMax(MatchedValues)

C4_Witness ==
    /\ ret = "grid"
    /\ Ncols(g) = 2
    /\ Len(hist.data) = 2
    /\ Len(Words(hist.data[1])) = 3
    /\ IsRow(hist.data[2], 2)
    /\ Height(g, 0, 0) = 0
    /\ Height(g, 1, 1) = 501 * Scale
    /\ MinHeight(g) = 500 * Scale

\* C5: end-of-input met before six header lines were read makes
\* ReadGridFromFile return an error and no Grid.
C5_HeaderEofIsError ==
    (hist.eof /\ Len(hist.hdr) < HeaderLines) =>
        /\ ret = "error"
        /\ pc = "exit"
        /\ ~crashed
        /\ img = NoImage
        /\ out # "image"

C5_Witness ==
    hist.eof /\ Len(hist.hdr) = 3 /\ ret = "error" /\ pc = "exit"

C7_MinMaxOfStored ==
    hist.stored # {} =>
        /\ MaxHeight(g) >= MinHeight(g)
        /\ MinHeight(g) = SetMin(hist.stored)
        /\ MaxHeight(g) = SetMax(hist.stored)

C7_Witness ==
    /\ call.op = "SetHeight"
    /\ hist.stored = ApiHeights
    /\ MinHeight(g) < MaxHeight(g)

\* C8: the image is ncols wide and nrows high, the shade of every cell is
\* stored inside it, and no pixel is left unwritten.
C8_OnePixelPerCell ==
    (pc = "exit" /\ out = "image" /\ Ncols(g) > 0 /\ Nrows(g) > 0) =>
        /\ img.w = Ncols(g)
        /\ img.h = Nrows(g)
        /\ \A row \in 0..(Nrows(g) - 1), col \in 0..(Ncols(g) - 1) :
             PixelOf(row, col) \in DOMAIN img.pix
        /\ \A p \in DOMAIN img.pix : img.pix[p] # Unwritten

\* C9: when the input cannot be opened or the parse returns an error, the
\* output file has not been created, truncated or written.
C9_NoOutputOnFailure ==
    ret = "error" => out = "untouched"

\* C10: a SetHeight call with an index out of range does not crash, and a
\* value is stored only when 0 <= row < nrows and 0 <= col < ncols.
C10_OutOfRangeRejected ==
    call.op = "SetHeight" =>
        /\ ~crashed
        /\ call.res = 1 =>
             /\ 0 <= call.a /\ call.a < Nrows(g)
             /\ 0 <= call.b /\ call.b < Ncols(g)

\* C11: after a successful parse every cell of the Grid, a cell of a row that
\* was skipped or never supplied included, has MinHeight() <= Height(row, col)
\* <= MaxHeight().
C11_MinMaxBoundEveryCell ==
    ret = "grid" =>
        \A row \in 0..(Nrows(g) - 1), col \in 0..(Ncols(g) - 1) :
            /\ MinHeight(g) <= Height(g, row, col)
            /\ Height(g, row, col) <= MaxHeight(g)

\* main has passed the choice of floor and ceiling for a parsed grid.
BoundsChosen == ret = "grid" /\ pc # "bounds"

FloorGiven == "floor" \in opt.flagset \/ "f" \in opt.flagset
CeilingGiven == "ceiling" \in opt.flagset \/ "c" \in opt.flagset

\* C12: without a floor option floor is MinHeight() - 0.1, without a ceiling
\* option ceiling is MaxHeight() + 0.1, each independently of the other; an
\* option given by its long or its short name, 0 included, is used unchanged;
\* and with neither given, ceiling > floor for every parsed grid.
C12_FloorAndCeilingChosen ==
    BoundsChosen =>
        /\ opt.floor = IF FloorGiven THEN Float32(opt.floor64)
                       ELSE AddEpsilon(MinHeight(g), -Epsilon)
        /\ opt.ceiling = IF CeilingGiven THEN Float32(opt.ceiling64)
                         ELSE AddEpsilon(MaxHeight(g), Epsilon)
        /\ (~FloorGiven /\ ~CeilingGiven) => opt.ceiling > opt.floor

\* The cell main's loops visit k-th: rows from nrows - 1 down to 0, and in
\* each row the columns from 0 up to ncols - 1.
CellInOrder(k) == <<Nrows(g) - 1 - ((k - 1) \div Ncols(g)), (k - 1) % Ncols(g)>>

\* C13: shade is called exactly once for each cell, rows from nrows - 1 down
\* to 0 and columns from 0 up to ncols - 1, and the shade of cell (row, col)
\* is written at x = col, y = nrows - 1 - row.
C13_RowInvertedPixel ==
    (pc = "exit" /\ out = "image" /\ Ncols(g) > 0 /\ Nrows(g) > 0) =>
        /\ Len(hist.cells) = Nrows(g) * Ncols(g)
        /\ \A k \in 1..Len(hist.cells) :
             /\ hist.cells[k] = CellInOrder(k)
             /\ hist.log[k].c = Height(g, hist.cells[k][1], hist.cells[k][2])
             /\ <<hist.cells[k][2], Nrows(g) - 1 - hist.cells[k][1]>> \in DOMAIN img.pix
             /\ img.pix[<<hist.cells[k][2], Nrows(g) - 1 - hist.cells[k][1]>>] = hist.log[k].res

\* C13 as amended: shade is called exactly once for each cell, rows from
\* nrows - 1 down to 0 and columns from 0 up to ncols - 1, and the shade of
\* cell (row, col) is written at x = col, y = row, the row not inverted,
\* wherever that point lies inside the image.
C13_PixelAtColRow ==
    (pc = "exit" /\ out = "image" /\ Ncols(g) > 0 /\ Nrows(g) > 0) =>
        /\ Len(hist.cells) = Nrows(g) * Ncols(g)
        /\ \A k \in 1..Len(hist.cells) :
             /\ hist.cells[k] = CellInOrder(k)
             /\ hist.log[k].c = Height(g, hist.cells[k][1], hist.cells[k][2])
             /\ <<hist.cells[k][2], hist.cells[k][1]>> \in DOMAIN img.pix =>
                  img.pix[<<hist.cells[k][2], hist.cells[k][1]>>] = hist.log[k].res

C13_Witness ==
    /\ pc = "exit"
    /\ out = "image"
    /\ Ncols(g) = 2
    /\ Nrows(g) = 2
    /\ hist.cells = <<<<1, 0>>, <<1, 1>>, <<0, 0>>, <<0, 1>>>>
    /\ Height(g, 0, 1) = 501 * Scale
    /\ Height(g, 1, 0) = 1000 * Scale
    /\ img.pix[<<0, 1>>] = hist.log[1].res
    /\ img.pix[<<1, 0>>] = hist.log[4].res
    /\ hist.log[1].res # hist.log[4].res

\* The data lines of the file as far as they were read: the lines consumed as
\* rows and, where the input ended without a newline, the text before its end.
FileLines == hist.data \o (IF hist.tail # <<>> THEN <<hist.tail>> ELSE <<>>)

\* The file held more data lines than nrows: one more was read and discarded.
MoreLines == rd.lineNum > linesExpected \/ (hist.eof /\ Len(FileLines) > HeaderNrows)

\* The file ended after fewer data lines than nrows.
FewerLines == hist.eof /\ Len(FileLines) < HeaderNrows

\* C14: a file with more or with fewer data lines than nrows, each of ncols
\* numbers, is parsed successfully; the Grid holds the first nrows lines, the
\* lines beyond them leaving no trace, and with k < nrows lines the rows
\* 0..k-1 hold their lines' values and the rows k..nrows-1 are all 0.
C14_ExtraAndMissingLines ==
    (/\ HeaderRead
     /\ HeaderNcols > 0
     /\ HeaderNrows > 0
     /\ MoreLines \/ FewerLines
     /\ \A i \in 1..Len(FileLines) : IsRow(FileLines[i], HeaderNcols)) =>
        /\ ~crashed
        /\ ret # "error"
        /\ \A r \in 0..(HeaderNrows - 1), c \in 0..(HeaderNcols - 1) :
             Height(g, r, c) = IF r < Len(FileLines) THEN ValueOf(FileLines[r + 1], c)
                               ELSE 0

\* The intensities returned by the calls of shade so far.
Returned == {hist.log[k].res : k \in 1..Len(hist.log)}

\* C15: after any sequence of calls of shade, minShade is the least and
\* maxShade the greatest intensity returned so far, so minShade <= maxShade;
\* and what a call returns depends on floor, ceiling and height alone: two
\* calls with the same arguments return the same intensity, whatever was
\* called between them.
C15_TrackerAndPurity ==
    /\ Len(hist.log) = hist.calls
    /\ hist.log # <<>> =>
         /\ tracker.minShadeSet /\ tracker.maxShadeSet
         /\ tracker.minShade = SetMin(Returned)
         /\ tracker.maxShade = SetMax(Returned)
         /\ tracker.minShade <= tracker.maxShade
    /\ \A i \in 1..Len(hist.log), j \in 1..Len(hist.log) :
         (/\ hist.log[i].a = hist.log[j].a
          /\ hist.log[i].b = hist.log[j].b
          /\ hist.log[i].c = hist.log[j].c) => hist.log[i].res = hist.log[j].res

C15_Witness ==
    /\ pc = "shade"
    /\ Len(hist.log) = 2
    /\ hist.log[1] = [op |-> "shade", a |-> 0, b |-> 1000, c |-> 1000, res |-> 255]
    /\ hist.log[2] = [op |-> "shade", a |-> 0, b |-> 1000, c |-> 500, res |-> 127]
    /\ tracker.minShade = 127
    /\ tracker.maxShade = 255

\* C16: with neither floor nor ceiling given, every cell of a parsed grid has
\* floor < Height(row, col) < ceiling, and the shade of every pixel is
\* computed without wraparound: the quotient lies in 0..255.
C16_HeightsInsideBounds ==
    (BoundsChosen /\ ~FloorGiven /\ ~CeilingGiven) =>
        /\ \A row \in 0..(Nrows(g) - 1), col \in 0..(Ncols(g) - 1) :
             /\ opt.floor < Height(g, row, col)
             /\ Height(g, row, col) < opt.ceiling
        /\ \A k \in 1..Len(hist.log) :
             /\ hist.log[k].b - hist.log[k].a # 0
             /\ TruncDiv(hist.log[k].c - hist.log[k].a, 256,
                         hist.log[k].b - hist.log[k].a) \in 0..255

\* C17: for a file of six header lines and nrows data lines of ncols numbers
\* whose last data line ends at end-of-input without a newline, the parse
\* succeeds and the last grid row holds the values of that line.
C17_UnterminatedLastLineKept ==
    (/\ HeaderRead
     /\ HeaderNcols > 0
     /\ HeaderNrows > 0
     /\ hist.eof
     /\ hist.tail # <<>>
     /\ Len(FileLines) = HeaderNrows
     /\ \A i \in 1..Len(FileLines) : IsRow(FileLines[i], HeaderNcols)) =>
        /\ ~crashed
        /\ ret # "error"
        /\ \A r \in 0..(HeaderNrows - 1), c \in 0..(HeaderNcols - 1) :
             Height(g, r, c) = ValueOf(FileLines[r + 1], c)

\* C18: ReadGridFromFile ends by returning a Grid or an error, whatever the
\* input holds: it never ends in a run-time panic.
C18_ParserNeverCrashes ==
    /\ ret = "none" => ~crashed
    /\ (pc = "exit" /\ out # "untouched") => ret \in {"grid", "error"}

====
